---- MODULE Spec2Model ----
(***************************************************************************)
(* Simulation controller of the bouncing-balls programs.                   *)
(*   growth variant: src/ball.py   (static ring, collision-driven spawns)  *)
(*   escape variant: src/ball2.py  (rotating ring with a gap, escapes)     *)
(* The physics engine, renderer, audio and input backends are modelled at  *)
(* the interface the controller calls: space.add / space.remove change the *)
(* registered bodies and shapes, space.step moves the balls to positions   *)
(* the controller does not decide and (growth variant) reports collisions. *)
(* Lengths are in pixels, angles in degrees, radii in tenths of a pixel,   *)
(* angular velocity in thousandths of a radian per second.                 *)
(***************************************************************************)
EXTENDS Integers, Sequences, FiniteSets

VARIABLES
    variant,        \* "growth" (ball.py) or "escape" (ball2.py)
    pc,             \* position of run() in the frame loop
    running,        \* self.running
    gravity,        \* self.space.gravity, <<gx, gy>>
    click_sound,    \* TRUE: a loaded Sound; FALSE: None
    colored_balls,  \* self.colored_balls, a list of ColoredBall
    balls_count,    \* self.balls_count (ball.py only; 0 stands for "no attribute")
    color_index,    \* self.color_index
    space,          \* the pymunk Space: [bodies, shapes, segments, ring_position]
    ring_angvel,    \* ring_body.angular_velocity * 1000 (ball2.py only; 0 in ball.py)
    next_id,        \* identity the next created body/ColoredBall object gets
    plays,          \* click_sound.play() calls issued by the last handler run
    forces,         \* forces applied to bodies since the last step
    rendered,       \* what _draw put on the screen surface last
    frames,         \* the frames run() has completed (counted for ball2.py; 0 in ball.py)
    frame_log       \* the steps of run() executed so far in the current frame

vars == <<variant, pc, running, gravity, click_sound, colored_balls, balls_count,
          color_index, space, ring_angvel, next_id, plays, forces, rendered,
          frames, frame_log>>

----------------------------------------------------------------------------
(* Bounds of the model *)

\* Live balls in a run of the default specification.
MaxBalls == 3
\* Frames of the escape variant (its angular velocity grows every frame).
MaxFrames == 3
\* Events pygame.event.get() returns in one frame.
MaxEvents == 2
\* Balls ever created in a run of the colour-cycle specification.
MaxCycleCreated == 8
\* Frames of the escape variant in the colour-cycle specification.
MaxCycleFrames == 4

----------------------------------------------------------------------------
(* Program constants *)

width == 1000
height == 800
circle_radius == 380
circle_center == <<width \div 2, height \div 2>>
\* len(self.vibgyor_colors)
PaletteLen == 7
vibgyor_colors ==
    <<"Violet", "Indigo", "Blue", "Green", "Yellow", "Orange", "Red">>
\* ball.py: ball_base_radius = 10, growth 1.3 per ball, in tenths of a pixel
ball_base_radius10 == 100
growth_factor10 == 13
\* ball2.py: ball_fixed_radius = 15, in tenths of a pixel
ball_fixed_radius10 == 150
\* ball2.py: distance > circle_radius + 50
escape_tolerance == 50
\* ball2.py: ring_body.angular_velocity = 0.5, += 0.001 per frame (thousandths)
ring_angvel0 == 500
ring_angvel_delta == 1
gravity0 == <<0, 500>>

repulsion_radius(v) == IF v = "growth" THEN 100 ELSE 150
repulsion_strength(v) == IF v = "growth" THEN 1000 ELSE 0 - 15000

----------------------------------------------------------------------------
(* Geometry of the sample points *)

\* The sample points of the model. Balls are created at the centre (ball.py:
\* the first one at InitialPos); a physics step leaves each ball at one of
\* RingPos, TolPos, OutPos.
Center == circle_center
\* ball.py _create_initial_ball: (center.x - 50, center.y - 50)
InitialPos == <<circle_center[1] - 50, circle_center[2] - 50>>
\* at distance circle_radius = 380 from the centre
RingPos == <<circle_center[1] + 380, circle_center[2]>>
\* at distance exactly 430 = circle_radius + 50 (258, 344, 430 is Pythagorean)
TolPos == <<circle_center[1] + 258, circle_center[2] + 344>>
\* at distance 431
OutPos == <<circle_center[1] + 431, circle_center[2]>>

Positions == {RingPos, TolPos, OutPos}
CyclePositions == {RingPos, OutPos}

\* dx*dx + dy*dy of the code's distance computations
Dist2(p, q) == (p[1] - q[1]) * (p[1] - q[1]) + (p[2] - q[2]) * (p[2] - q[2])

----------------------------------------------------------------------------
(* BoundaryBuilder *)

\* ball.py: num_segments = 36, segment i from i*10 to (i+1)*10 degrees
num_segments_growth == 36
\* ball2.py: num_segments = 60, step = 360 / num_segments
num_segments_escape == 60
step_escape == 360 \div num_segments_escape
\* ball2.py: the gap test "0 < angle_deg < 40"
gap_low == 0
gap_high == 40

\* One pymunk.Segment: its end points are the points of the circle at the
\* angles a1 and a2 (degrees), relative to the body it is attached to.
Segment(a1, a2, body) ==
    [a1 |-> a1, a2 |-> a2, radius |-> circle_radius, thickness |-> 5, body |-> body]

\* ball.py _create_circle_boundary: the segments added to the space, in order
\* (faulty variant for the checks: the end angle one degree too far)
GrowthAngle2Shifted(i) == (i + 1) * 10 + 1
GrowthAngle2(i) == (i + 1) * 10
create_circle_boundary_growth ==
    [k \in 1..num_segments_growth |->
        Segment((k - 1) * 10, GrowthAngle2(k - 1), "static")]

\* ball2.py: "if 0 < angle_deg < 40: continue"
\* (faulty variant for the checks: the half-open test "0 <= angle_deg < 40")
InGapClosedLow(angle_deg) == gap_low <= angle_deg /\ angle_deg < gap_high
InGap(angle_deg) == gap_low < angle_deg /\ angle_deg < gap_high

RECURSIVE EscapeSegmentsFrom(_)
\* ball2.py _create_circle_boundary: the loop "for i in range(num_segments)"
\* from index i on
EscapeSegmentsFrom(i) ==
    IF i >= num_segments_escape THEN <<>>
    ELSE LET angle_deg == i * step_escape
             rest == EscapeSegmentsFrom(i + 1)
         IN  IF InGap(angle_deg) THEN rest
             ELSE <<Segment(angle_deg, (i + 1) * step_escape, "ring")>> \o rest

create_circle_boundary_escape == EscapeSegmentsFrom(0)

----------------------------------------------------------------------------
(* PopulationStore, ColorCycler and the policies, as functions of the part  *)
(* of the game state they read and write:                                   *)
(*   g = [balls, count, cidx, bodies, shapes, nid, plays]                   *)
(* balls: colored_balls; count: balls_count; cidx: color_index; bodies and  *)
(* shapes: the dynamic bodies and circle shapes registered in the space,    *)
(* named by the identity of the ball object that owns them; nid: identity   *)
(* of the next object created; plays: click_sound.play() calls so far in    *)
(* the handler.                                                             *)

\* A ColoredBall with its body: id is the identity of the object, pos is
\* body.position. The body's velocity, mass and moment and the shape's
\* elasticity and friction are read by the engine alone and are left out.
ColoredBall(id, color, radius, pos) ==
    [id |-> id, color |-> color, radius |-> radius, pos |-> pos]

BallIds(balls) == {balls[i].id : i \in 1..Len(balls)}

\* self.color_index = (self.color_index + 1) % len(self.vibgyor_colors)
\* (faulty variant for the checks: the modulus one short)
NextColorIndexShort(cidx) == (cidx + 1) % (PaletteLen - 1)
NextColorIndex(cidx) == (cidx + 1) % PaletteLen

\* self.space.add(body, shape)
\* (faulty variant for the checks: nothing is handed to the space)
SpaceAddNothing(g, id) == g
SpaceAdd(g, id) == [g EXCEPT !.bodies = @ \cup {id}, !.shapes = @ \cup {id}]

\* self.space.remove(ball.body, list(ball.body.shapes)[0])
\* (faulty variant for the checks: the shape is left in the space)
SpaceRemoveBodyOnly(g, id) == [g EXCEPT !.bodies = @ \ {id}]
SpaceRemove(g, id) == [g EXCEPT !.bodies = @ \ {id}, !.shapes = @ \ {id}]

\* if self.click_sound: self.click_sound.play()
\* (faulty variant for the checks: play without the test)
PlayAlways(g, sound) == [g EXCEPT !.plays = @ + 1]
PlayIfLoaded(g, sound) == IF sound THEN [g EXCEPT !.plays = @ + 1] ELSE g

\* ball.py _create_ball: returns the state after the call and the new ball
\* (the caller appends it)
\* (faulty variant for the checks: the radius does not read balls_count)
create_ball_growth_same_radius(g, position) ==
    LET ball_radius == ball_base_radius10 + growth_factor10
        g1 == SpaceAdd(g, g.nid)
        color == vibgyor_colors[g1.cidx + 1]
        g2 == [g1 EXCEPT !.cidx = NextColorIndex(@), !.nid = @ + 1]
    IN  [g |-> g2, ball |-> ColoredBall(g.nid, color, ball_radius, position)]
create_ball_growth(g, position) ==
    LET ball_radius == ball_base_radius10 + g.count * growth_factor10
        g1 == SpaceAdd(g, g.nid)
        color == vibgyor_colors[g1.cidx + 1]
        g2 == [g1 EXCEPT !.cidx = NextColorIndex(@), !.nid = @ + 1]
    IN  [g |-> g2, ball |-> ColoredBall(g.nid, color, ball_radius, position)]

\* ball.py _create_initial_ball
create_initial_ball(g) ==
    LET r == create_ball_growth(g, InitialPos)
    IN  [r.g EXCEPT !.balls = Append(@, r.ball)]

\* ball.py _on_collision, the test "random.random() < 1 / self.balls_count"
\* for the sample u = k / den
\* (faulty variant for the checks: "<=" for "<")
SpawnsOrEqual(k, den, count) == k * count <= den
Spawns(k, den, count) == k * count < den

\* ball.py _on_collision with the sample k / den
\* (faulty variant for the checks: the new ball replaces the list)
on_collision_replacing(g, sound, k, den) ==
    LET g1 == PlayIfLoaded(g, sound)
    IN  IF Spawns(k, den, g1.count)
        THEN LET r == create_ball_growth(g1, circle_center)
             IN  [r.g EXCEPT !.balls = <<r.ball>>, !.count = @ + 1]
        ELSE g1
on_collision(g, sound, k, den) ==
    LET g1 == PlayIfLoaded(g, sound)
    IN  IF Spawns(k, den, g1.count)
        THEN LET r == create_ball_growth(g1, circle_center)
             IN  [r.g EXCEPT !.balls = Append(@, r.ball), !.count = @ + 1]
        ELSE g1

\* ball2.py _create_ball: creates the ball and appends it to colored_balls
create_ball_escape(g, position) ==
    LET g1 == SpaceAdd(g, g.nid)
        color == vibgyor_colors[g1.cidx + 1]
        ball_obj == ColoredBall(g.nid, color, ball_fixed_radius10, position)
    IN  [g1 EXCEPT !.cidx = NextColorIndex(@), !.nid = @ + 1,
                   !.balls = Append(@, ball_obj)]

\* ball2.py: "distance > self.circle_radius + 50", distance the square root
\* of dx**2 + dy**2: for whole dx, dy the comparison of the roots is the
\* comparison of the squares
\* (faulty variant for the checks: ">=" for ">")
EscapedOrAtTolerance(ball) ==
    Dist2(ball.pos, circle_center) >=
        (circle_radius + escape_tolerance) * (circle_radius + escape_tolerance)
Escaped(ball) ==
    Dist2(ball.pos, circle_center) >
        (circle_radius + escape_tolerance) * (circle_radius + escape_tolerance)

\* list.remove(ball): drops the first element that is the object `id`
RECURSIVE ListRemove(_, _)
ListRemove(balls, id) ==
    IF balls = <<>> THEN <<>>
    ELSE IF Head(balls).id = id THEN Tail(balls)
    ELSE <<Head(balls)>> \o ListRemove(Tail(balls), id)

\* ball2.py: the two balls created at the centre for one removed ball
\* (faulty variant for the checks: one ball for one removed ball)
SpawnOne(g) == create_ball_escape(g, circle_center)
SpawnTwo(g) == create_ball_escape(create_ball_escape(g, circle_center), circle_center)

\* ball2.py _handle_escaped_balls, the body of "for ball in balls_to_remove"
RemoveAndRespawn(g, sound, ball) ==
    LET g1 == SpaceRemove(g, ball.id)
        g2 == [g1 EXCEPT !.balls = ListRemove(@, ball.id)]
        g3 == PlayIfLoaded(g2, sound)
    IN  SpawnTwo(g3)

RECURSIVE RemoveAll(_, _, _)
\* ball2.py _handle_escaped_balls, the loop "for ball in balls_to_remove"
RemoveAll(g, sound, balls_to_remove) ==
    IF balls_to_remove = <<>> THEN g
    ELSE RemoveAll(RemoveAndRespawn(g, sound, Head(balls_to_remove)), sound,
                   Tail(balls_to_remove))

\* ball2.py _handle_escaped_balls, the scan that fills balls_to_remove
BallsToRemove(balls) == SelectSeq(balls, Escaped)

RECURSIVE RemoveWhileScanning(_, _, _)
\* (faulty variant for the checks: one loop "for ball in self.colored_balls"
\* that removes and respawns while it scans; i is the list iterator's index)
RemoveWhileScanning(g, sound, i) ==
    IF i > Len(g.balls) THEN g
    ELSE IF Escaped(g.balls[i])
         THEN RemoveWhileScanning(RemoveAndRespawn(g, sound, g.balls[i]), sound, i + 1)
         ELSE RemoveWhileScanning(g, sound, i + 1)
handle_escaped_balls_while_scanning(g, sound) == RemoveWhileScanning(g, sound, 1)

\* ball2.py _handle_escaped_balls
handle_escaped_balls(g, sound) == RemoveAll(g, sound, BallsToRemove(g.balls))

----------------------------------------------------------------------------
(* Input handling, pointer force field, rendering *)

EventKinds == {"QUIT", "K_DOWN", "K_ESCAPE", "K_OTHER", "OTHER"}

\* Seq(S) restricted to the lengths 0..n
RECURSIVE SeqsUpTo(_, _)
SeqsUpTo(S, n) ==
    IF n = 0 THEN {<<>>}
    ELSE LET shorter == SeqsUpTo(S, n - 1)
         IN  shorter \cup {Append(q, x) : q \in shorter, x \in S}

\* _handle_events, the body of "for event in pygame.event.get()";
\* st = [running, gravity]
\* (faulty variants for the checks: the Down key sets gravity upward instead
\* of negating it; another key sets running again)
HandleEventDownSets(st, event) ==
    IF event = "QUIT" THEN [st EXCEPT !.running = FALSE]
    ELSE IF event = "K_DOWN" THEN [st EXCEPT !.gravity = <<0, 0 - gravity0[2]>>]
    ELSE IF event = "K_ESCAPE" THEN [st EXCEPT !.running = FALSE]
    ELSE st
HandleEventResuming(st, event) ==
    IF event = "QUIT" THEN [st EXCEPT !.running = FALSE]
    ELSE IF event = "K_DOWN" THEN [st EXCEPT !.gravity = <<0, 0 - st.gravity[2]>>]
    ELSE IF event = "K_ESCAPE" THEN [st EXCEPT !.running = FALSE]
    ELSE IF event = "K_OTHER" THEN [st EXCEPT !.running = TRUE]
    ELSE st
HandleEvent(st, event) ==
    IF event = "QUIT" THEN [st EXCEPT !.running = FALSE]
    ELSE IF event = "K_DOWN" THEN [st EXCEPT !.gravity = <<0, 0 - st.gravity[2]>>]
    ELSE IF event = "K_ESCAPE" THEN [st EXCEPT !.running = FALSE]
    ELSE st

RECURSIVE HandleEvents(_, _)
\* _handle_events over the list pygame.event.get() returned
HandleEvents(st, events) ==
    IF events = <<>> THEN st
    ELSE HandleEvents(HandleEvent(st, Head(events)), Tail(events))

\* The pointer positions pygame.mouse.get_pos() returns in the model: on a ball
\* at RingPos (and 51 from one at OutPos), and at the distances 50, 100 and
\* 150 from a ball at TolPos. Every distance below a repulsion radius between
\* these and the ball positions is a whole number.
MousePositions ==
    {RingPos, <<TolPos[1] - 30, TolPos[2] - 40>>,
     <<TolPos[1] - 60, TolPos[2] - 80>>,
     <<TolPos[1] - 90, TolPos[2] - 120>>}

\* math.sqrt of a perfect square
Sqrt(d2) == CHOOSE r \in 0..(width + height) : r * r = d2

\* _apply_mouse_repulsion, the test "distance < self.repulsion_radius and
\* distance > 0" on the squares
InForceRange(ball, mouse_pos, v) ==
    /\ Dist2(ball.pos, mouse_pos) < repulsion_radius(v) * repulsion_radius(v)
    /\ Dist2(ball.pos, mouse_pos) > 0

\* _apply_mouse_repulsion: the force of apply_force_at_local_point for a ball
\* (faulty variant for the checks: dx, dy taken from the ball to the pointer)
ForceOnTowardPointer(ball, mouse_pos, v) ==
    LET dx == mouse_pos[1] - ball.pos[1]
        dy == mouse_pos[2] - ball.pos[2]
        distance == Sqrt(dx * dx + dy * dy)
    IN  [id |-> ball.id,
         fx |-> (dx * repulsion_strength(v)) \div distance,
         fy |-> (dy * repulsion_strength(v)) \div distance]
ForceOn(ball, mouse_pos, v) ==
    LET dx == ball.pos[1] - mouse_pos[1]
        dy == ball.pos[2] - mouse_pos[2]
        distance == Sqrt(dx * dx + dy * dy)
    IN  [id |-> ball.id,
         fx |-> (dx * repulsion_strength(v)) \div distance,
         fy |-> (dy * repulsion_strength(v)) \div distance]

\* _apply_mouse_repulsion: the force commands issued for the balls in the store
apply_mouse_repulsion(balls, mouse_pos, v) ==
    {ForceOn(balls[i], mouse_pos, v) :
        i \in {j \in 1..Len(balls) : InForceRange(balls[j], mouse_pos, v)}}

\* _draw: the circles drawn (one per ball of the store, in order) and the
\* ball count of the text line
draw(balls, count, v) ==
    [balls |-> [i \in 1..Len(balls) |-> balls[i].id],
     text |-> IF v = "growth" THEN count ELSE Len(balls)]

----------------------------------------------------------------------------
(* The state machine *)

\* Denominator of the samples random.random() returns in the model: k / SampleDen
SampleDen == 12
Samples == 0..(SampleDen - 1)

\* The policy state read from the variables, at the start of a handler
G == [balls |-> colored_balls, count |-> balls_count, cidx |-> color_index,
      bodies |-> space.bodies, shapes |-> space.shapes, nid |-> next_id,
      plays |-> 0]

\* ... and written back
SetG(g) ==
    /\ colored_balls' = g.balls
    /\ balls_count' = g.count
    /\ color_index' = g.cidx
    /\ space' = [space EXCEPT !.bodies = g.bodies, !.shapes = g.shapes]
    /\ next_id' = g.nid
    /\ plays' = g.plays

\* __init__ up to the first ball: balls_count = 1 (ball.py), no ball, colour 0
\* (faulty variant for the checks: the counter starts at 0)
G0CountZero(v) ==
    [balls |-> <<>>, count |-> 0, cidx |-> 0, bodies |-> {}, shapes |-> {},
     nid |-> 1, plays |-> 0]
G0(v) == [balls |-> <<>>, count |-> IF v = "growth" THEN 1 ELSE 0, cidx |-> 0,
          bodies |-> {}, shapes |-> {}, nid |-> 1, plays |-> 0]

\* __init__: the policy state after construction
InitG(v) ==
    IF v = "growth" THEN create_initial_ball(G0(v))
    ELSE create_ball_escape(G0(v), circle_center)

\* The state after BouncingBallsGame() returned, run() not yet entered. The
\* sound file loads (click_sound a Sound) or the load raises and is caught
\* (click_sound None).
Init ==
    /\ variant \in {"growth", "escape"}
    /\ click_sound \in BOOLEAN
    /\ pc = "loop"
    /\ running = TRUE
    /\ gravity = gravity0
    /\ colored_balls = InitG(variant).balls
    /\ balls_count = InitG(variant).count
    /\ color_index = InitG(variant).cidx
    /\ space = [bodies |-> InitG(variant).bodies, shapes |-> InitG(variant).shapes,
                segments |-> IF variant = "growth" THEN create_circle_boundary_growth
                             ELSE create_circle_boundary_escape,
                ring_position |-> IF variant = "growth" THEN <<>> ELSE circle_center]
    /\ ring_angvel = IF variant = "escape" THEN ring_angvel0 ELSE 0
    /\ next_id = InitG(variant).nid
    /\ plays = 0
    /\ forces = {}
    /\ rendered = [balls |-> <<>>, text |-> 0]
    /\ frames = 0
    /\ frame_log = <<>>

\* run(): the step that follows `step` in the loop body
\* (faulty variants for the checks: escape handling skipped; _draw moved
\* behind the physics step)
StepAfterSkipEscape(step, v) ==
    IF step = "events" THEN "force"
    ELSE IF step = "force" THEN "draw"
    ELSE IF step = "escape" THEN "draw"
    ELSE IF step = "draw" THEN "step"
    ELSE IF step = "step" THEN (IF v = "escape" THEN "angvel" ELSE "flip")
    ELSE IF step = "angvel" THEN "flip"
    ELSE "loop"
StepAfterDrawLast(step, v) ==
    IF step = "events" THEN "force"
    ELSE IF step = "force" THEN (IF v = "escape" THEN "escape" ELSE "step")
    ELSE IF step = "escape" THEN "step"
    ELSE IF step = "step" THEN (IF v = "escape" THEN "angvel" ELSE "draw")
    ELSE IF step = "angvel" THEN "draw"
    ELSE IF step = "draw" THEN "flip"
    ELSE "loop"
StepAfter(step, v) ==
    IF step = "events" THEN "force"
    ELSE IF step = "force" THEN (IF v = "escape" THEN "escape" ELSE "draw")
    ELSE IF step = "escape" THEN "draw"
    ELSE IF step = "draw" THEN "step"
    ELSE IF step = "step" THEN (IF v = "escape" THEN "angvel" ELSE "flip")
    ELSE IF step = "angvel" THEN "flip"
    ELSE "loop"

\* run(): "while self.running", and pygame.quit() when it fails
\* (faulty variant for the checks: leaving the loop empties the store and the
\* space)
run_while_teardown(env) ==
    /\ pc = "loop"
    /\ (variant = "escape" /\ running) => frames < env.maxFrames
    /\ pc' = IF running THEN "events" ELSE "done"
    /\ frame_log' = IF running THEN <<>> ELSE frame_log
    /\ plays' = 0
    /\ colored_balls' = IF running THEN colored_balls ELSE <<>>
    /\ space' = IF running THEN space
                ELSE [space EXCEPT !.bodies = {}, !.shapes = {}]
    /\ UNCHANGED <<variant, frames, running, gravity, click_sound, balls_count,
                   color_index, ring_angvel, next_id, forces, rendered>>
run_while(env) ==
    /\ pc = "loop"
    /\ (variant = "escape" /\ running) => frames < env.maxFrames
    /\ pc' = IF running THEN "events" ELSE "done"
    /\ frame_log' = IF running THEN <<>> ELSE frame_log
    /\ plays' = 0
    /\ UNCHANGED <<variant, frames, running, gravity, click_sound, colored_balls, balls_count,
                   color_index, space, ring_angvel, next_id, forces, rendered>>

\* run(): self._handle_events()
handle_events(env) ==
    /\ pc = "events"
    /\ \E events \in env.events :
          LET st == HandleEvents([running |-> running, gravity |-> gravity], events)
          IN  /\ running' = st.running
              /\ gravity' = st.gravity
    /\ pc' = StepAfter("events", variant)
    /\ frame_log' = Append(frame_log, "events")
    /\ plays' = 0
    /\ UNCHANGED <<variant, frames, click_sound, colored_balls, balls_count, color_index,
                   space, ring_angvel, next_id, forces, rendered>>

\* run(): self._apply_mouse_repulsion()
mouse_repulsion(env) ==
    /\ pc = "force"
    /\ \E mouse_pos \in env.mice :
          forces' = forces \cup apply_mouse_repulsion(colored_balls, mouse_pos, variant)
    /\ pc' = StepAfter("force", variant)
    /\ frame_log' = Append(frame_log, "force")
    /\ plays' = 0
    /\ UNCHANGED <<variant, frames, running, gravity, click_sound, colored_balls, balls_count,
                   color_index, space, ring_angvel, next_id, rendered>>

\* run(): self._handle_escaped_balls() (ball2.py)
escaped_balls ==
    /\ pc = "escape"
    /\ variant = "escape"
    /\ SetG(handle_escaped_balls(G, click_sound))
    /\ pc' = StepAfter("escape", variant)
    /\ frame_log' = Append(frame_log, "escape")
    /\ UNCHANGED <<variant, frames, running, gravity, click_sound, ring_angvel, forces, rendered>>

\* run(): self._draw()
draw_frame ==
    /\ pc = "draw"
    /\ rendered' = draw(colored_balls, balls_count, variant)
    /\ pc' = StepAfter("draw", variant)
    /\ frame_log' = Append(frame_log, "draw")
    /\ plays' = 0
    /\ UNCHANGED <<variant, frames, running, gravity, click_sound, colored_balls, balls_count,
                   color_index, space, ring_angvel, next_id, forces>>

\* run(): self.space.step(1 / 60.0) is entered
space_step_begin ==
    /\ pc = "step"
    /\ pc' = "in_step"
    /\ frame_log' = Append(frame_log, "step")
    /\ plays' = 0
    /\ UNCHANGED <<variant, frames, running, gravity, click_sound, colored_balls, balls_count,
                   color_index, space, ring_angvel, next_id, forces, rendered>>

\* The engine reports a boundary/ball collision during the step and calls
\* _on_collision (ball.py; ball2.py registers no handler)
collision(env) ==
    /\ pc = "in_step"
    /\ variant = "growth"
    /\ \E k \in Samples :
          /\ Spawns(k, SampleDen, balls_count) =>
                Len(colored_balls) < env.maxBalls /\ next_id <= env.maxCreated
          /\ SetG(on_collision(G, click_sound, k, SampleDen))
    /\ UNCHANGED <<variant, frames, pc, running, gravity, click_sound, ring_angvel, forces,
                   rendered, frame_log>>

\* self.space.step returns: the engine has moved every ball and cleared the
\* forces it integrated
space_step_end(env) ==
    /\ pc = "in_step"
    /\ \E newpos \in [1..Len(colored_balls) -> env.positions] :
          LET moved == [i \in 1..Len(colored_balls) |->
                            [colored_balls[i] EXCEPT !.pos = newpos[i]]]
          IN  /\ variant = "escape" =>
                    /\ Len(moved) + Len(BallsToRemove(moved)) <= env.maxBalls
                    /\ (next_id - 1) + 2 * Len(BallsToRemove(moved)) <= env.maxCreated
              /\ colored_balls' = moved
    /\ forces' = {}
    /\ pc' = StepAfter("step", variant)
    /\ UNCHANGED <<variant, frames, running, gravity, click_sound, balls_count, color_index,
                   space, ring_angvel, next_id, plays, rendered, frame_log>>

\* run(): self.ring_body.angular_velocity += 0.001 (ball2.py)
\* (faulty variant for the checks: the increment applied twice)
ring_accelerate_twice ==
    /\ pc = "angvel"
    /\ variant = "escape"
    /\ ring_angvel' = ring_angvel + 2 * ring_angvel_delta
    /\ pc' = StepAfter("angvel", variant)
    /\ frame_log' = Append(frame_log, "angvel")
    /\ plays' = 0
    /\ UNCHANGED <<variant, frames, running, gravity, click_sound, colored_balls,
                   balls_count, color_index, space, next_id, forces, rendered>>
ring_accelerate ==
    /\ pc = "angvel"
    /\ variant = "escape"
    /\ ring_angvel' = ring_angvel + ring_angvel_delta
    /\ pc' = StepAfter("angvel", variant)
    /\ frame_log' = Append(frame_log, "angvel")
    /\ plays' = 0
    /\ UNCHANGED <<variant, frames, running, gravity, click_sound, colored_balls, balls_count,
                   color_index, space, next_id, forces, rendered>>

\* run(): pygame.display.flip(); self.clock.tick(60)
flip_tick ==
    /\ pc = "flip"
    /\ pc' = StepAfter("flip", variant)
    /\ frame_log' = Append(frame_log, "flip")
    /\ frames' = IF variant = "escape" THEN frames + 1 ELSE frames
    /\ plays' = 0
    /\ UNCHANGED <<variant, running, gravity, click_sound, colored_balls, balls_count,
                   color_index, space, ring_angvel, next_id, forces, rendered>>

NextWith(env) ==
    \/ run_while(env)
    \/ handle_events(env)
    \/ mouse_repulsion(env)
    \/ escaped_balls
    \/ draw_frame
    \/ space_step_begin
    \/ collision(env)
    \/ space_step_end(env)
    \/ ring_accelerate
    \/ flip_tick

\* The environment of the default specification: every sample position, event
\* list and pointer position, a few balls
Env == [positions |-> Positions, maxBalls |-> MaxBalls,
        maxCreated |-> 2 * MaxBalls, maxFrames |-> MaxFrames,
        events |-> SeqsUpTo(EventKinds, MaxEvents), mice |-> MousePositions]

Next == NextWith(Env)
Spec == Init /\ [][Next]_vars

\* The environment of the colour-cycle specification: more balls than the
\* palette has colours, in a quiet environment (balls on the ring or out of
\* range, no input event, the pointer in the window's corner)
CycleEnv == [positions |-> CyclePositions, maxBalls |-> MaxCycleCreated,
             maxCreated |-> MaxCycleCreated, maxFrames |-> MaxCycleFrames,
             events |-> {<<>>}, mice |-> {<<0, 0>>}]

NextCycle == NextWith(CycleEnv)
SpecCycle == Init /\ [][NextCycle]_vars

----------------------------------------------------------------------------
(* Properties *)

Ids(balls) == [i \in 1..Len(balls) |-> balls[i].id]
EscapeLimit2 == (circle_radius + escape_tolerance) * (circle_radius + escape_tolerance)
\* a step of the engine calling _on_collision
IsCollisionStep == variant = "growth" /\ pc = "in_step" /\ pc' = "in_step"
\* a step of run() calling _handle_escaped_balls
IsEscapeTick == variant = "escape" /\ pc = "escape" /\ pc' # "escape"

\* C1: in the growth variant the number of live balls never decreases: every
\* ball of the store stays in it, a collision event adds no ball or exactly
\* one, and no other step of the frame loop changes the store's length.
C1_GrowthNeverShrinks ==
    [][variant = "growth" =>
        /\ BallIds(colored_balls) \subseteq BallIds(colored_balls')
        /\ Len(colored_balls') >= Len(colored_balls)
        /\ IF IsCollisionStep
           THEN Len(colored_balls') - Len(colored_balls) \in {0, 1}
           ELSE Len(colored_balls') = Len(colored_balls)]_vars

\* C1 witness: a growth run that has spawned up to the bound and finished the frame
C1_Witness ==
    variant = "growth" /\ pc = "flip" /\ Len(colored_balls) = MaxBalls

\* C2: one escape tick removes exactly the balls whose distance from the
\* centre is strictly greater than 380 + 50, keeps every other ball as it was,
\* and creates exactly two balls at the centre per removed ball.
C2_EscapeTick ==
    [][IsEscapeTick =>
        LET old == {colored_balls[i] : i \in 1..Len(colored_balls)}
            new == {colored_balls'[i] : i \in 1..Len(colored_balls')}
            removed == {b \in old : b.id \notin BallIds(colored_balls')}
            created == {b \in new : b.id \notin BallIds(colored_balls)}
        IN  /\ \A b \in old :
                  (b \in removed) <=> (Dist2(b.pos, circle_center) > EscapeLimit2)
            /\ \A b \in old : b \notin removed => b \in new
            /\ Cardinality(created) = 2 * Cardinality(removed)
            /\ Len(colored_balls') = Len(colored_balls) + Cardinality(removed)
            /\ \A b \in created : b.pos = circle_center]_vars

\* C2 witness: after a tick that removed a ball at distance 431 and kept one at
\* distance exactly 430
C2_Witness ==
    /\ variant = "escape" /\ pc = "draw" /\ next_id = 6
    /\ Len(colored_balls) = 3
    /\ \E i \in 1..Len(colored_balls) : colored_balls[i].pos = TolPos

\* C3: a collision with population N and sample k/SampleDen spawns exactly one
\* ball, at the centre, when k/SampleDen < 1/N, and otherwise leaves the store,
\* the counter, the colour index and the space as they are; at N = 1 every
\* sample spawns, and the spawning samples are ceil(SampleDen / N) of the
\* SampleDen samples, exactly a share 1/N when N divides SampleDen.
C3_CollisionPolicy ==
    variant = "growth" =>
        LET N == balls_count
            after(k) == on_collision(G, click_sound, k, SampleDen)
            spawning == {k \in Samples : Len(after(k).balls) > Len(colored_balls)}
        IN  /\ N >= 1
            /\ \A k \in Samples :
                  IF k * N < SampleDen
                  THEN /\ Len(after(k).balls) = Len(colored_balls) + 1
                       /\ SubSeq(after(k).balls, 1, Len(colored_balls)) = colored_balls
                       /\ after(k).balls[Len(colored_balls) + 1].pos = circle_center
                       /\ after(k).balls[Len(colored_balls) + 1].id \notin
                              BallIds(colored_balls)
                       /\ after(k).count = N + 1
                  ELSE /\ after(k).balls = colored_balls
                       /\ after(k).count = N
                       /\ after(k).cidx = color_index
                       /\ after(k).bodies = space.bodies
                       /\ after(k).shapes = space.shapes
            /\ N = 1 => spawning = Samples
            /\ (Cardinality(spawning) - 1) * N < SampleDen
            /\ Cardinality(spawning) * N >= SampleDen
            /\ SampleDen % N = 0 => Cardinality(spawning) * N = SampleDen

\* C3 witness: collisions at population 1 and 2 have spawned, the engine is in
\* a step at population 3
C3_Witness ==
    variant = "growth" /\ pc = "in_step" /\ balls_count = 3 /\ Len(colored_balls) = 3

\* C4: the dynamic bodies and the circle shapes registered in the space are
\* exactly those of the balls in the store, one pair per ball, and the store
\* holds no ball twice.
C4_StoreMatchesSpace ==
    /\ space.bodies = BallIds(colored_balls)
    /\ space.shapes = BallIds(colored_balls)
    /\ Cardinality(BallIds(colored_balls)) = Len(colored_balls)

\* C4 witness: the first ball escaped and was removed, its two replacements live
C4_Witness ==
    /\ variant = "escape" /\ pc = "draw"
    /\ 1 \notin BallIds(colored_balls) /\ Len(colored_balls) >= 2

\* C5 as stated: the escape boundary has fewer than 60 segments and none of
\* them starts at an angle in [0, 40), so none starts at 0 degrees.
C5_AsStated ==
    variant = "escape" =>
        /\ Len(space.segments) < num_segments_escape
        /\ \A i \in 1..Len(space.segments) :
              ~(0 <= space.segments[i].a1 /\ space.segments[i].a1 < 40)

\* C5 amended: the escape boundary has 54 segments, fewer than 60; none of
\* them starts at an angle strictly between 0 and 40 degrees; the one that
\* starts at exactly 0 degrees is emitted, so the start angles left out are
\* 6, 12, ..., 36, and every other multiple of 6 below 360 starts a segment.
C5_GapIsOpenAtZero ==
    variant = "escape" =>
        LET starts == {space.segments[i].a1 : i \in 1..Len(space.segments)}
        IN  /\ Len(space.segments) = 54
            /\ Len(space.segments) < num_segments_escape
            /\ \A a \in starts : ~(0 < a /\ a < 40)
            /\ 0 \in starts
            /\ starts = {6 * i : i \in 0..59} \ {6, 12, 18, 24, 30, 36}
            /\ Cardinality(starts) = Len(space.segments)
            /\ \A i \in 1..Len(space.segments) :
                  /\ space.segments[i].a2 = space.segments[i].a1 + 6
                  /\ space.segments[i].body = "ring"

\* C5 witness: the escape variant is running on the boundary it built
C5_Witness ==
    /\ variant = "escape" /\ pc = "in_step"
    /\ Len(space.segments) = 54 /\ space.segments[1].a1 = 0
    /\ space.segments[2].a1 = 42

RECURSIVE SpanSum(_)
\* the sum of the angular spans of a sequence of segments
SpanSum(segs) ==
    IF segs = <<>> THEN 0 ELSE (Head(segs).a2 - Head(segs).a1) + SpanSum(Tail(segs))

\* C6: the growth boundary has exactly 36 segments, segment i spans
\* [10*i, 10*(i+1)] degrees, each segment ends where the next starts and the
\* last ends at 360 where the first starts (0), so the spans sum to 360 degrees;
\* this holds in every reachable state, so the segments never change.
C6_GrowthBoundaryTiles ==
    variant = "growth" =>
        LET segs == space.segments
        IN  /\ Len(segs) = 36
            /\ \A i \in 1..Len(segs) :
                  /\ segs[i].a1 = 10 * (i - 1)
                  /\ segs[i].a2 = 10 * i
                  /\ segs[i].body = "static"
            /\ \A i \in 1..(Len(segs) - 1) : segs[i].a2 = segs[i + 1].a1
            /\ segs[1].a1 = 0
            /\ segs[Len(segs)].a2 = 360
            /\ SpanSum(segs) = 360

\* C6 witness: a growth run with spawned balls, some frames after construction
C6_Witness ==
    /\ variant = "growth" /\ pc = "flip" /\ Len(colored_balls) >= 2
    /\ Len(space.segments) = 36

\* C7: the ball created after k earlier creations has palette entry k mod 7,
\* the colour index stays in 0..6 and is the number of creations mod 7, and two
\* balls fewer than 7 creations apart have different colours.
C7_ColorCycle ==
    /\ color_index \in 0..(PaletteLen - 1)
    /\ color_index = (next_id - 1) % PaletteLen
    /\ \A i \in 1..Len(colored_balls) :
          colored_balls[i].color =
              vibgyor_colors[((colored_balls[i].id - 1) % PaletteLen) + 1]
    /\ \A i, j \in 1..Len(colored_balls) :
          LET d == colored_balls[i].id - colored_balls[j].id
          IN  (0 < d /\ d < PaletteLen) =>
                  colored_balls[i].color # colored_balls[j].color
    /\ Cardinality({vibgyor_colors[c] : c \in 1..PaletteLen}) = PaletteLen

\* C7 witness: eight balls created, the eighth with the colour of the first
C7_Witness ==
    /\ variant = "growth" /\ Len(colored_balls) = 8
    /\ colored_balls[8].color = colored_balls[1].color
    /\ colored_balls[7].color = "Red"

\* the steps of `log` that are among `steps`, in the order they ran
Restrict(log, steps) == SelectSeq(log, LAMBDA x : x \in steps)
IsPrefix(p, q) == Len(p) <= Len(q) /\ p = SubSeq(q, 1, Len(p))
\* the frame has run its last step
FrameComplete == frame_log # <<>> /\ frame_log[Len(frame_log)] = "flip"

\* C8: in every frame input handling, pointer force application, escape
\* handling (escape variant) and the physics step run once each, in this order,
\* and a completed frame has run all of them; so when the physics step is
\* entered the other ones have run in this frame.
C8_FrameOrder ==
    LET order == IF variant = "escape" THEN <<"events", "force", "escape", "step">>
                 ELSE <<"events", "force", "step">>
        ran == Restrict(frame_log, {"events", "force", "escape", "step"})
    IN  /\ IsPrefix(ran, order)
        /\ FrameComplete => ran = order
        /\ pc = "in_step" => ran = order
        /\ pc = "step" => ran = SubSeq(order, 1, Len(order) - 1)

\* C8 witness: the physics step of a later frame of the escape variant
C8_Witness ==
    variant = "escape" /\ pc = "in_step" /\ ring_angvel > ring_angvel0

\* C9 as stated: the balls are handed to the renderer after the frame's
\* physics step (and angular-velocity increment), so at the end of a frame
\* every ball of the store, spawned ones included, has been drawn.
C9_AsStated ==
    /\ \A i \in 1..Len(frame_log) :
          frame_log[i] = "draw" =>
              \E j \in 1..(i - 1) : frame_log[j] = "step"
    /\ FrameComplete => rendered.balls = Ids(colored_balls)

\* C9 amended: the balls are handed to the renderer before the frame's physics
\* step (and before the angular-velocity increment): what is drawn in frame n
\* is the store as it is when the step of frame n is entered, and a ball that a
\* collision callback spawns during that step is not in the rendering of
\* frame n.
C9_DrawBeforeStep ==
    /\ \A j \in 1..Len(frame_log) :
          frame_log[j] \in {"step", "angvel"} =>
              \E i \in 1..(j - 1) : frame_log[i] = "draw"
    /\ pc = "step" =>
          /\ rendered.balls = Ids(colored_balls)
          /\ rendered.text = Len(colored_balls)
    /\ pc \in {"in_step", "angvel", "flip"} =>
          /\ IsPrefix(rendered.balls, Ids(colored_balls))
          /\ Len(rendered.balls) = rendered.text
          /\ variant = "growth" =>
                Len(colored_balls) - Len(rendered.balls) = balls_count - rendered.text

\* C9 witness: a frame of the growth variant ends with a ball on no rendering
C9_Witness ==
    /\ variant = "growth" /\ pc = "flip"
    /\ Len(rendered.balls) < Len(colored_balls)

\* C10: with the sound not loaded the program starts and runs, no handler issues
\* a play call, and a collision event or an escape tick changes the store, the
\* space, the counter, the colour index and the identities exactly as it does
\* with the sound loaded.
C10_SilentSameEffect ==
    click_sound = FALSE =>
        /\ plays = 0
        /\ variant = "growth" =>
              \A k \in Samples :
                  /\ on_collision(G, FALSE, k, SampleDen).plays = 0
                  /\ on_collision(G, FALSE, k, SampleDen) =
                        [on_collision(G, TRUE, k, SampleDen) EXCEPT !.plays = 0]
        /\ variant = "escape" =>
              /\ handle_escaped_balls(G, FALSE).plays = 0
              /\ handle_escaped_balls(G, FALSE) =
                    [handle_escaped_balls(G, TRUE) EXCEPT !.plays = 0]

\* C10 witness: started without sound, an escape tick has just removed a ball
\* and created its replacements, with no play call
C10_Witness ==
    /\ click_sound = FALSE /\ variant = "escape" /\ pc = "draw"
    /\ next_id >= 4 /\ plays = 0
    /\ \E i \in 1..Len(colored_balls) :
          colored_balls[i].id = next_id - 1 /\ colored_balls[i].pos = circle_center

\* a step of run() calling _apply_mouse_repulsion
IsForceStep == pc = "force" /\ pc' # "force"

\* C11: one application of the pointer force field, strength S and radius R,
\* pointer at m: a ball whose centre is at m gets no force command; a ball at
\* distance d with 0 < d < R gets exactly one command, of magnitude |S|, on the
\* line through m and the ball, pointing away from m when S > 0 and toward m
\* when S < 0; a ball at distance d > R gets no command.
C11_ForceField ==
    [][IsForceStep =>
        \E m \in MousePositions :
            \A i \in 1..Len(colored_balls) :
                LET b == colored_balls[i]
                    dx == b.pos[1] - m[1]
                    dy == b.pos[2] - m[2]
                    d2 == Dist2(b.pos, m)
                    R == repulsion_radius(variant)
                    S == repulsion_strength(variant)
                    cmds == {f \in forces' : f.id = b.id}
                IN  /\ d2 = 0 => cmds = {}
                    /\ d2 > R * R => cmds = {}
                    /\ (0 < d2 /\ d2 < R * R) =>
                          /\ Cardinality(cmds) = 1
                          /\ \A f \in cmds :
                                /\ f.fx * f.fx + f.fy * f.fy = S * S
                                /\ f.fx * dy = f.fy * dx
                                /\ S > 0 => f.fx * dx + f.fy * dy > 0
                                /\ S < 0 => f.fx * dx + f.fy * dy < 0]_vars

\* C11 witness: the force field has acted on two balls, pushing the one at
\* distance 50 from the pointer away from it and leaving the far one alone
C11_Witness ==
    /\ variant = "growth" /\ pc = "draw" /\ Len(colored_balls) >= 2
    /\ \E i, j \in 1..Len(colored_balls) :
          /\ colored_balls[i].pos = TolPos
          /\ [id |-> colored_balls[i].id, fx |-> 600, fy |-> 800] \in forces
          /\ \A f \in forces : f.id # colored_balls[j].id

\* C12 as stated: in the growth variant no step taken while the physics step
\* is in progress changes which balls the store holds or which bodies the
\* space holds; a spawn reaches them only once the step has returned.
C12_AsStated ==
    [][(variant = "growth" /\ pc = "in_step") =>
        /\ Ids(colored_balls') = Ids(colored_balls)
        /\ space'.bodies = space.bodies
        /\ space'.shapes = space.shapes]_vars

\* C12 amended: in the growth variant a spawn decided inside a collision
\* callback is applied at once, while the physics step is in progress: the
\* callback appends the ball to the store, hands its body and shape to the
\* space and increments the counter before it returns. No intent is recorded:
\* the return of the step, and every step of the frame loop outside the
\* callbacks, leaves the balls of the store and the bodies of the space as
\* they are.
C12_SpawnInsideStep ==
    [][variant = "growth" =>
        IF IsCollisionStep
        THEN \/ /\ Ids(colored_balls') = Ids(colored_balls)
                /\ space' = space
                /\ balls_count' = balls_count
             \/ /\ Ids(colored_balls') = Append(Ids(colored_balls), next_id)
                /\ space'.bodies = space.bodies \cup {next_id}
                /\ space'.shapes = space.shapes \cup {next_id}
                /\ next_id \notin space.bodies
                /\ balls_count' = balls_count + 1
        ELSE /\ Ids(colored_balls') = Ids(colored_balls)
             /\ space' = space
             /\ balls_count' = balls_count]_vars

\* C12 witness: the physics step is in progress and a callback of this step has
\* already put a ball into the store and the space that the frame's rendering,
\* made before the step, does not have
C12_Witness ==
    /\ variant = "growth" /\ pc = "in_step"
    /\ Len(colored_balls) = Len(rendered.balls) + 1
    /\ colored_balls[Len(colored_balls)].id \in space.bodies
    /\ colored_balls[Len(colored_balls)].id \notin
           BallIds(SubSeq(colored_balls, 1, Len(rendered.balls)))
    /\ colored_balls[Len(colored_balls)].pos = circle_center

\* the sequence in the opposite order
Reverse(q) == [i \in 1..Len(q) |-> q[Len(q) + 1 - i]]

RECURSIVE RemovalsPresent(_, _, _)
\* every ball of `todo` is in the store and in the space when the removal loop
\* of _handle_escaped_balls reaches it
RemovalsPresent(g, sound, todo) ==
    \/ todo = <<>>
    \/ /\ Head(todo).id \in BallIds(g.balls)
       /\ Head(todo).id \in g.bodies
       /\ RemovalsPresent(RemoveAndRespawn(g, sound, Head(todo)), sound, Tail(todo))

\* C13: an escape tick collects, then applies: the balls it removes are exactly
\* the balls out of range in the store as it is when the tick starts, whatever
\* the order of the scan (the same balls go with the store reversed); the
\* balls in range stay, in their order; the list of removals names no ball
\* twice and every ball of it is in the store when its removal is reached; the
\* balls created in the tick are not in the list of removals and are all in the
\* store when the tick ends.
C13_CollectThenApply ==
    [][IsEscapeTick =>
        LET todo == BallsToRemove(colored_balls)
            out == {colored_balls[i].id :
                       i \in {j \in 1..Len(colored_balls) : Escaped(colored_balls[j])}}
            stay == SelectSeq(colored_balls, LAMBDA b : ~Escaped(b))
            created == next_id..(next_id' - 1)
            reversed == handle_escaped_balls(
                            [G EXCEPT !.balls = Reverse(colored_balls)], click_sound)
        IN  /\ BallIds(colored_balls) \ BallIds(colored_balls') = out
            /\ BallIds(todo) = out
            /\ Cardinality(BallIds(todo)) = Len(todo)
            /\ RemovalsPresent(G, click_sound, todo)
            /\ IsPrefix(stay, colored_balls')
            /\ BallIds(colored_balls) \ BallIds(reversed.balls) = out
            /\ Len(reversed.balls) = Len(colored_balls')
            /\ created \cap BallIds(todo) = {}
            /\ Cardinality(created) = 2 * Len(todo)
            /\ BallIds(colored_balls') = (BallIds(colored_balls) \ out) \cup created
            /\ Len(colored_balls') = Len(stay) + Cardinality(created)]_vars

\* C13 witness: one tick has removed two balls that were next to each other in
\* the store (two play calls) and their four replacements are the store
C13_Witness ==
    /\ variant = "escape" /\ pc = "draw" /\ click_sound /\ plays = 2
    /\ Ids(colored_balls) = <<4, 5, 6, 7>>
    /\ \A i \in 1..4 : colored_balls[i].pos = circle_center

\* the steps run() still has to take from position p until it has returned
StepsLeft(p) ==
    IF p = "events" THEN 9 ELSE IF p = "force" THEN 8 ELSE IF p = "escape" THEN 7
    ELSE IF p = "draw" THEN 6 ELSE IF p = "step" THEN 5 ELSE IF p = "in_step" THEN 4
    ELSE IF p = "angvel" THEN 3 ELSE IF p = "flip" THEN 2 ELSE IF p = "loop" THEN 1
    ELSE 0

\* the steps of one whole frame
WholeFrame(v) ==
    IF v = "escape"
    THEN <<"events", "force", "escape", "draw", "step", "angvel", "flip">>
    ELSE <<"events", "force", "draw", "step", "flip">>

\* C14: the running flag is read only at the frame boundary and written only
\* by input handling; once false it stays false; the frame that handled the
\* quit or Escape-key event goes on through all its remaining steps (force,
\* escape handling, render, physics step, ...) as any frame does; at the next
\* frame boundary the loop is left, no frame starts after that, and from the
\* moment the flag is false every step brings the exit nearer (the engine's
\* callbacks inside the physics step aside), so the loop terminates. No list
\* of events sets the flag: after input handling it is true exactly when it
\* was true before and the list holds no quit and no Escape-key event.
C14_Cancellation ==
    /\ [](pc = "events" =>
             \A r \in BOOLEAN : \A events \in Env.events :
                 HandleEvents([running |-> r, gravity |-> gravity], events).running
                     = (r /\ \A i \in 1..Len(events) :
                                 events[i] \notin {"QUIT", "K_ESCAPE"}))
    /\ [][/\ ~running => ~running'
          /\ running' # running => pc = "events"
          /\ pc = "loop" => pc' = (IF running THEN "events" ELSE "done")
          /\ pc' = "done" => (pc = "loop" /\ ~running /\ frame_log' = WholeFrame(variant))
          /\ pc # "done"
          /\ pc \in {"events", "force", "escape", "draw", "angvel", "flip"} =>
                /\ pc' = StepAfter(pc, variant)
                /\ frame_log' = Append(frame_log, pc)
          /\ pc = "step" => pc' = "in_step"
          /\ pc = "in_step" => pc' \in {"in_step", StepAfter("step", variant)}
          /\ ~running =>
                \/ StepsLeft(pc') < StepsLeft(pc)
                \/ pc = "in_step" /\ pc' = "in_step"]_vars

\* C14 witness: the loop was left after an escape-variant frame that handled a
\* quit request and then ran all its other steps
C14_Witness ==
    /\ pc = "done" /\ ~running /\ variant = "escape"
    /\ frame_log = WholeFrame("escape")
    /\ ring_angvel = ring_angvel0 + 2 * ring_angvel_delta

\* C15: the carrier of the escape variant has angular velocity 0.5 (500
\* thousandths) before the first frame; the only step that changes it is the
\* increment by 0.001, taken once per frame after that frame's physics step
\* has returned; so after n completed frames it is 0.5 + 0.001 * n, and it
\* never decreases; the carrier stays at the centre of the playfield.
C15_RingAcceleration ==
    [][variant = "escape" =>
        /\ (frames = 0 /\ "angvel" \notin {frame_log[i] : i \in 1..Len(frame_log)}) =>
              ring_angvel = ring_angvel0
        /\ ring_angvel' >= ring_angvel
        /\ ring_angvel' # ring_angvel =>
              /\ pc = "angvel"
              /\ ring_angvel' = ring_angvel + ring_angvel_delta
              /\ frame_log[Len(frame_log)] = "step"
              /\ Len(Restrict(frame_log', {"angvel"})) = 1
        /\ pc = "angvel" => ring_angvel' # ring_angvel
        /\ pc \in {"loop", "done"} =>
              ring_angvel = ring_angvel0 + frames * ring_angvel_delta
        /\ pc' \in {"loop", "done"} =>
              ring_angvel' = ring_angvel0 + frames' * ring_angvel_delta
        /\ space.ring_position = circle_center
        /\ space'.ring_position = circle_center]_vars

\* C15 witness: three frames of the escape variant are complete and the
\* carrier's angular velocity is 0.503
C15_Witness ==
    /\ variant = "escape" /\ pc = "loop" /\ frames = MaxFrames
    /\ ring_angvel = ring_angvel0 + MaxFrames * ring_angvel_delta
    /\ space.ring_position = circle_center

\* C16 as stated: in the growth variant a ball spawned at population N has
\* radius 10 + 1.3 * N (in tenths: 100 + 13 * N), and every ball has a radius
\* strictly greater than that of every ball created before it, the initial
\* ball included.
C16_AsStated ==
    variant = "growth" =>
        \A i, j \in 1..Len(colored_balls) :
            /\ i >= 2 => colored_balls[i].radius =
                             ball_base_radius10 + (i - 1) * growth_factor10
            /\ i < j => colored_balls[i].radius < colored_balls[j].radius

\* C16 amended: in the growth variant a ball spawned by a collision at
\* population N has radius 10 + 1.3 * N and keeps it for its lifetime; the
\* initial ball has radius 11.3, the radius of a spawn at population 1. So no
\* ball is smaller than a ball created before it, and every spawned ball is
\* strictly larger than every ball spawned before it; the first spawned ball
\* has the same radius as the initial ball.
C16_RadiusGrowth ==
    [][variant = "growth" =>
        /\ colored_balls[1].radius = ball_base_radius10 + growth_factor10
        /\ \A i \in 1..Len(colored_balls) :
              colored_balls'[i].radius = colored_balls[i].radius
        /\ (IsCollisionStep /\ Len(colored_balls') > Len(colored_balls)) =>
              colored_balls'[Len(colored_balls')].radius =
                  ball_base_radius10 + Len(colored_balls) * growth_factor10
        /\ \A i, j \in 1..Len(colored_balls') :
              /\ i < j => colored_balls'[i].radius <= colored_balls'[j].radius
              /\ (2 <= i /\ i < j) =>
                    colored_balls'[i].radius < colored_balls'[j].radius
        /\ Len(colored_balls') >= 2 =>
              colored_balls'[2].radius = colored_balls'[1].radius]_vars

\* C16 witness: the initial ball and two spawned balls, of radius 11.3, 11.3
\* and 12.6
C16_Witness ==
    /\ variant = "growth" /\ Len(colored_balls) = 3
    /\ colored_balls[1].radius = 113 /\ colored_balls[2].radius = 113
    /\ colored_balls[3].radius = 126

\* C17 as stated: when the main loop has ended, the store is empty and the
\* space holds no ball body and no ball collider.
C17_AsStated ==
    pc = "done" =>
        /\ colored_balls = <<>>
        /\ space.bodies = {}
        /\ space.shapes = {}

\* C17 amended: when the main loop ends, run() takes no ball out of the store
\* and no body or collider out of the space: the store and the space of the
\* final state are those the last frame left, with at least one ball and one
\* body and collider per ball.
C17_NoTeardown ==
    [][/\ pc' = "done" =>
             /\ colored_balls' = colored_balls
             /\ space' = space
             /\ balls_count' = balls_count
       /\ pc = "done" =>
             /\ Len(colored_balls) >= 1
             /\ space.bodies = BallIds(colored_balls)
             /\ space.shapes = BallIds(colored_balls)]_vars

\* C17 witness: the loop has ended with three balls in the store and their
\* bodies in the space
C17_Witness ==
    /\ pc = "done" /\ ~running /\ Len(colored_balls) = 3
    /\ Cardinality(space.bodies) = 3
    /\ space.bodies = BallIds(colored_balls)

\* C18: in the growth variant balls_count is the number of balls in the store,
\* after __init__ and after every collision event, also when several
\* collisions of one physics step spawn; it is at least 1, so the divisor of
\* 1 / balls_count is never 0, and every collision event that may follow keeps
\* the two equal.
C18_CounterIsStoreSize ==
    variant = "growth" =>
        /\ balls_count = Len(colored_balls)
        /\ balls_count >= 1
        /\ \A k \in Samples :
              LET after == on_collision(G, click_sound, k, SampleDen)
              IN  /\ after.count = Len(after.balls)
                  /\ after.count >= balls_count

\* C18 witness: two collisions of one physics step have spawned, the counter
\* and the store are at 3
C18_Witness ==
    /\ variant = "growth" /\ pc = "in_step"
    /\ Len(rendered.balls) = 1
    /\ balls_count = 3 /\ Len(colored_balls) = 3

\* C19: the escape variant starts with exactly one ball in the store; an
\* escape tick that removes m balls leaves the store m balls longer (m out,
\* 2m in); no other step changes the number of balls, so it never decreases
\* and is at least 1; a tick that finds no escaped ball leaves the store, the
\* space and the colour index as they are.
C19_EscapePopulation ==
    [][variant = "escape" =>
        /\ (pc = "loop" /\ frames = 0) =>
              /\ Len(colored_balls) = 1
              /\ colored_balls[1].pos = circle_center
        /\ Len(colored_balls) >= 1
        /\ Len(colored_balls') >= Len(colored_balls)
        /\ IF IsEscapeTick
           THEN LET m == Cardinality({i \in 1..Len(colored_balls) :
                                         Dist2(colored_balls[i].pos, circle_center)
                                             > EscapeLimit2})
                IN  /\ Len(colored_balls') = Len(colored_balls) + m
                    /\ next_id' = next_id + 2 * m
                    /\ Cardinality(BallIds(colored_balls) \ BallIds(colored_balls')) = m
                    /\ m = 0 =>
                          /\ colored_balls' = colored_balls
                          /\ space' = space
                          /\ color_index' = color_index
                          /\ next_id' = next_id
                          /\ plays' = 0
           ELSE Len(colored_balls') = Len(colored_balls)]_vars

\* C19 witness: the third tick of a run has found both balls of the store out
\* of range: one ball, then two, now four
C19_Witness ==
    /\ variant = "escape" /\ pc = "draw" /\ frames = 2
    /\ Len(colored_balls) = 4 /\ next_id = 8
    /\ 2 \notin BallIds(colored_balls) /\ 3 \notin BallIds(colored_balls)

\* (-1)^k
MinusOneToThe(k) == IF k % 2 = 0 THEN 1 ELSE 0 - 1

\* C20: gravity is (0, 500) at startup and (0, 500) or (0, -500) in every
\* state; only input handling changes it; a list of events holding k Down-key
\* events, other events between them or not, turns gravity (0, y) into
\* (0, y * (-1)^k): each Down key negates the vertical component, two of them
\* restore it, no other event touches it.
C20_GravityToggle ==
    /\ [](/\ gravity \in {<<0, 500>>, <<0, 0 - 500>>}
          /\ (pc = "loop" /\ frames = 0 /\ frame_log = <<>>) => gravity = <<0, 500>>
          /\ pc = "events" =>
                LET st == [running |-> running, gravity |-> gravity]
                IN  /\ \A events \in Env.events :
                          LET k == Len(SelectSeq(events, LAMBDA e : e = "K_DOWN"))
                          IN  HandleEvents(st, events).gravity =
                                  <<0, gravity[2] * MinusOneToThe(k)>>
                    /\ \A e \in EventKinds :
                          HandleEvent(st, e).gravity =
                              IF e = "K_DOWN" THEN <<0, 0 - gravity[2]>> ELSE gravity
                    /\ HandleEvent(HandleEvent(st, "K_DOWN"), "K_DOWN").gravity
                           = gravity)
    /\ [][gravity' # gravity =>
             /\ pc = "events"
             /\ gravity' = <<0, 0 - gravity[2]>>]_vars

\* C20 witness: gravity points upward after a Down key and the physics step of
\* a later frame runs under it
C20_Witness ==
    /\ gravity = <<0, 0 - 500>> /\ pc = "in_step" /\ running
    /\ variant = "escape" /\ frames >= 1

====
